---- MODULE Spec2Model ----
(***************************************************************************)
(* Request pipeline of the school-database REST API (routes, validation    *)
(* chains, authentication middleware and error wrapper of                  *)
(* src/models/user.js) over a Users table and a Courses table.             *)
(*                                                                         *)
(* Requests are processed concurrently: a request yields at every call     *)
(* into the persistence layer (await), and each such call is one atomic    *)
(* step of the model.  Code that runs synchronously after an await and     *)
(* touches only the request itself is part of the step of that await.      *)
(***************************************************************************)
EXTENDS Integers, Sequences, FiniteSets, TLC

VARIABLES
    users,      \* Users table: sequence of rows, row i has id i (autoIncrement)
    courses,    \* Courses table: function from the ids present to rows
    nextId,     \* next autoIncrement id of the Courses table
    reqs,       \* the requests in flight, one per worker slot
    written,    \* per course id present, the payload last persisted for it
    gone,       \* ids for which a DELETE /courses/:id has answered 204
    vIn,        \* validation harness: the payload being validated
    vOut        \* validation harness: the messages validationResult returns

vars == <<users, courses, written, nextId, reqs, gone, vIn, vOut>>

----------------------------------------------------------------------------
(* JavaScript values of a JSON payload.  Strings are sequences of          *)
(* one-character strings.                                                  *)

Undef == [t |-> "undefined"]
Null == [t |-> "null"]
Str(s) == [t |-> "string", s |-> s]
Num(n) == [t |-> "number", n |-> n]

Letters ==
    {"a","b","c","d","e","f","g","h","i","j","k","l","m","n","o","p","q","r",
     "s","t","u","v","w","x","y","z","A","B","C","D","E","F","G","H","I","J",
     "K","L","M","N","O","P","Q","R","S","T","U","V","W","X","Y","Z"}
Digits == {"0","1","2","3","4","5","6","7","8","9"}
DigitChar == <<"0","1","2","3","4","5","6","7","8","9">>

RECURSIVE NatToStr(_)
NatToStr(n) ==
    IF n < 10 THEN <<DigitChar[n + 1]>>
    ELSE NatToStr(n \div 10) \o <<DigitChar[(n % 10) + 1]>>

\* String(n) of an integer number
IntToStr(n) == IF n < 0 THEN <<"-">> \o NatToStr(0 - n) ELSE NatToStr(n)

\* !!value
Truthy(v) ==
    CASE v.t = "undefined" -> FALSE
      [] v.t = "null" -> FALSE
      [] v.t = "string" -> v.s # <<>>
      [] v.t = "number" -> v.n # 0

\* express-validator's toString, applied before a validator.js validator
JsToString(v) ==
    CASE v.t = "undefined" -> <<>>
      [] v.t = "null" -> <<>>
      [] v.t = "string" -> v.s
      [] v.t = "number" -> IntToStr(v.n)

AllIn(s, S) == \A i \in 1..Len(s) : s[i] \in S

\* validator.js isAlpha, locale en-US: /^[A-Z]+$/i
IsAlphaText(s) == Len(s) > 0 /\ AllIn(s, Letters)

\* Variant: isInt with leading zeroes allowed, /^[-+]?[0-9]+$/
IsIntTextAnyZeroes(s) ==
    LET signed == Len(s) > 0 /\ s[1] \in {"-", "+"}
        d == IF signed THEN SubSeq(s, 2, Len(s)) ELSE s
    IN  Len(d) > 0 /\ AllIn(d, Digits)

\* validator.js isInt with allow_leading_zeroes false:
\* /^(?:[-+]?(?:0|[1-9][0-9]*))$/
IsIntText(s) ==
    LET signed == Len(s) > 0 /\ s[1] \in {"-", "+"}
        d == IF signed THEN SubSeq(s, 2, Len(s)) ELSE s
    IN  /\ Len(d) > 0
        /\ AllIn(d, Digits)
        /\ (d[1] = "0" => Len(d) = 1)

\* validator.js isFQDN with its defaults: at least two labels, an alphabetic
\* top-level label of two or more characters, labels of letters, digits and
\* inner hyphens
RECURSIVE Labels(_)
Labels(s) ==
    IF \E i \in 1..Len(s) : s[i] = "."
    THEN LET i == CHOOSE i \in 1..Len(s) :
                      s[i] = "." /\ \A j \in 1..(i - 1) : s[j] # "."
         IN  <<SubSeq(s, 1, i - 1)>> \o Labels(SubSeq(s, i + 1, Len(s)))
    ELSE <<s>>

IsFQDNText(s) ==
    LET ls == Labels(s)
        tld == ls[Len(ls)]
    IN  /\ Len(ls) >= 2
        /\ Len(tld) >= 2 /\ AllIn(tld, Letters)
        /\ \A i \in 1..Len(ls) :
              /\ Len(ls[i]) > 0
              /\ AllIn(ls[i], Letters \cup Digits \cup {"-"})
              /\ ls[i][1] # "-" /\ ls[i][Len(ls[i])] # "-"

\* validator.js isEmail with its defaults: user part and domain are split at
\* the last "@"; the user part is dot-separated runs of the unquoted
\* characters, the domain is a fully qualified domain name
EmailUserChars ==
    Letters \cup Digits
        \cup {"!","#","$","%","&","*","+","-","/","=","?","^","_","{","|","}","~"}

IsEmailText(s) ==
    /\ \E i \in 1..Len(s) : s[i] = "@"
    /\ LET at == CHOOSE i \in 1..Len(s) :
                     s[i] = "@" /\ \A j \in (i + 1)..Len(s) : s[j] # "@"
           user == SubSeq(s, 1, at - 1)
           domain == SubSeq(s, at + 1, Len(s))
           parts == Labels(user)
       IN  /\ Len(user) > 0
           /\ \A i \in 1..Len(parts) :
                 Len(parts[i]) > 0 /\ AllIn(parts[i], EmailUserChars)
           /\ IsFQDNText(domain)

----------------------------------------------------------------------------
(* Validation chains.  A chain names a field, says whether it runs only    *)
(* when the field exists (.if(body(f).exists())), and lists its validators *)
(* with their messages.                                                    *)

V(kind, msg) == [kind |-> kind, msg |-> msg]
Chain(f, cond, vs) == [field |-> f, ifExists |-> cond, validators |-> vs]

\* Variant: the firstName chain without its presence check
userValidationChainLax == <<
    Chain("firstName", FALSE, <<
        V("isAlpha", "firstName must be a string, with only alpha characters")>>),
    Chain("lastName", FALSE, <<
        V("exists", "You must provide a last name for the user using the key lastName"),
        V("isAlpha", "lastName must be a string, with only alpha characters")>>),
    Chain("emailAddress", FALSE, <<
        V("exists", "You must provide an email address for the user using the key emailAddress"),
        V("isEmail", "You must provide a valid email address")>>),
    Chain("password", FALSE, <<
        V("exists", "You must provide a password for the user using the key password")>>)
    >>

\* userValidationChain of POST /users
userValidationChain == <<
    Chain("firstName", FALSE, <<
        V("exists", "You must provide a first name for the user using the key firstName"),
        V("isAlpha", "firstName must be a string, with only alpha characters")>>),
    Chain("lastName", FALSE, <<
        V("exists", "You must provide a last name for the user using the key lastName"),
        V("isAlpha", "lastName must be a string, with only alpha characters")>>),
    Chain("emailAddress", FALSE, <<
        V("exists", "You must provide an email address for the user using the key emailAddress"),
        V("isEmail", "You must provide a valid email address")>>),
    Chain("password", FALSE, <<
        V("exists", "You must provide a password for the user using the key password")>>)
    >>

\* courseValidationChain of POST /courses and PUT /courses/:id
courseValidationChain == <<
    Chain("title", FALSE, <<
        V("exists", "You must provide a title for the course with the key title"),
        V("isString", "The title must be a string")>>),
    Chain("description", FALSE, <<
        V("exists", "You must provide a description for the course with the key description"),
        V("isString", "The description must be a string (it is a text field)")>>),
    Chain("estimatedTime", TRUE, <<
        V("isString", "If you provide information for estimatedTime, it should be in string format")>>),
    Chain("materialsNeeded", TRUE, <<
        V("isString", "If you provide information about the materialsNeeded, it should be in string format")>>),
    Chain("userId", FALSE, <<
        V("exists", "You must provide the id of the user this course belongs to"),
        V("isInt", "You must provide a valid userId")>>)
    >>

\* One validator of a chain applied to the value of the field
Passes(kind, v) ==
    CASE kind = "exists" -> Truthy(v)   \* exists({checkNull, checkFalsy})
      [] kind = "isString" -> v.t = "string"
      [] kind = "isAlpha" -> IsAlphaText(JsToString(v))
      [] kind = "isEmail" -> IsEmailText(JsToString(v))
      [] kind = "isInt" -> IsIntText(JsToString(v))

\* Variant: a chain that stops at its first failing validator (.bail()
\* after each validator)
RunChainBail(c, body) ==
    LET v == body[c.field]
        bad == {i \in 1..Len(c.validators) : ~Passes(c.validators[i].kind, v)}
    IN  IF (c.ifExists /\ v.t = "undefined") \/ bad = {} THEN <<>>
        ELSE <<c.validators[CHOOSE i \in bad : \A j \in bad : i <= j].msg>>

\* The messages one chain adds for a payload: every validator of the chain
\* runs, each failure adds its message
RunChain(c, body) ==
    LET v == body[c.field]
        failed == SelectSeq(c.validators, LAMBDA x : ~Passes(x.kind, v))
    IN  IF c.ifExists /\ v.t = "undefined" THEN <<>>
        ELSE [i \in 1..Len(failed) |-> failed[i].msg]

\* validationResult(req).array().map(error => error.msg) after the chains
\* ran in declaration order
RECURSIVE ValidationErrors(_, _)
ValidationErrors(chains, body) ==
    IF chains = <<>> THEN <<>>
    ELSE RunChain(Head(chains), body) \o ValidationErrors(Tail(chains), body)

----------------------------------------------------------------------------
(* Sample strings *)

sAnn == <<"A","n","n">>
sLee == <<"L","e","e">>
sA1 == <<"a","1">>
sSp == <<"a"," ","b">>
sMail == <<"a","@","b",".","c","o">>
sNoMail == <<"a","@","b">>
sPw1 == <<"p","w","1">>
sPw2 == <<"p","w","2">>
sT == <<"T">>
sU == <<"U">>
sD == <<"D">>

----------------------------------------------------------------------------
(* Bounds *)

Workers == 2        \* requests in flight at once
MaxUsers == 2       \* rows the Users table may hold
MaxCourses == 2     \* ids the Courses table may hand out
MaxInt == 12        \* largest magnitude of the integers whose text is compared

Slots == 1..Workers

----------------------------------------------------------------------------
(* Persistence and password collaborators *)

\* bcryptjs.hashSync: a string that carries the salt and a digest of the
\* password; the salt is drawn from Salts
Salts == {"k"}
HashSync(p, salt) == Str(<<"$", salt, "$">> \o p)

\* bcryptjs.compareSync: hash the candidate with the salt of the stored hash
CompareSync(p, h) ==
    /\ h.t = "string"
    /\ Len(h.s) >= 3
    /\ HashSync(p, h.s[2]) = h

\* findAll({attributes}): the rows restricted to the attributes asked for
Project(row, attrs) == [a \in attrs |-> row[a]]

AuthAttributes == {"id", "emailAddress", "password"}
ListAttributes == {"id", "firstName", "lastName", "emailAddress"}
ListAttributesAll == {"id", "firstName", "lastName", "emailAddress", "password"}

\* A column stores NULL for a value that is not given
Store(v) == IF v.t = "undefined" THEN Null ELSE v

CourseFields == {"title", "description", "estimatedTime", "materialsNeeded", "userId"}

CourseRow(id, body) ==
    [f \in CourseFields \cup {"id"} |->
        IF f = "id" THEN Num(id) ELSE Store(body[f])]

\* The foreign key of User.hasMany(Course): userId names a row of Users
FkOk(v, us) == \E i \in 1..Len(us) : JsToString(v) = NatToStr(i)

\* Failures as the handlers report them (error.name, error.message)
DbError == [name |-> "SequelizeConnectionError", message |-> "database unavailable"]
FkError == [name |-> "SequelizeForeignKeyConstraintError",
            message |-> "SQLITE_CONSTRAINT: FOREIGN KEY constraint failed"]
HashError == [name |-> "Error", message |-> "Illegal arguments: number, undefined"]

----------------------------------------------------------------------------
(* Requests and responses *)

\* Variant: the course routes mounted without authenticationFunc
AuthEpsUsersOnly == {"GET /users"}

\* the routes that mount authenticationFunc
AuthEps == {"GET /users", "POST /courses", "PUT /courses/:id", "DELETE /courses/:id"}

NoCred == [present |-> FALSE, name |-> <<>>, pass |-> <<>>]
Cred(n, p) == [present |-> TRUE, name |-> n, pass |-> p]

NoBody == [none |-> Undef]
UserBody(fn, ln, em, pw) ==
    [firstName |-> fn, lastName |-> ln, emailAddress |-> em, password |-> pw]
CourseBody(ti, de, et, mn, uid) ==
    [title |-> ti, description |-> de, estimatedTime |-> et,
     materialsNeeded |-> mn, userId |-> uid]

NoJson == [keys |-> {}, msg |-> "", errors |-> <<>>, rows |-> <<>>,
           name |-> "", description |-> ""]
JsonMsg(m) == [NoJson EXCEPT !.keys = {"message"}, !.msg = m]
JsonErrors(es) == [NoJson EXCEPT !.keys = {"errors"}, !.errors = es]
JsonArray(rs) == [NoJson EXCEPT !.rows = rs]
JsonObject(row) == [NoJson EXCEPT !.keys = DOMAIN row, !.rows = <<row>>]
JsonError(e) ==
    [NoJson EXCEPT !.keys = {"message", "name", "description"},
                   !.msg = "Sorry, there was an error",
                   !.name = e.name, !.description = e.message]

Idle ==
    [ep |-> "", cred |-> NoCred, body |-> NoBody, id |-> 0, pc |-> "idle",
     status |-> 0, json |-> NoJson, failed |-> FALSE, wrote |-> FALSE,
     hit |-> FALSE, seen |-> 0, currentUser |-> 0]

Request(ep, cred, body, id) ==
    [Idle EXCEPT !.ep = ep, !.cred = cred, !.body = body, !.id = id,
                 !.pc = IF ep \in AuthEps THEN "auth" ELSE "handler"]

\* res.status(n).json(j)
Respond(r, n, j) == [r EXCEPT !.pc = "done", !.status = n, !.json = j]

\* the catch of asyncHandler and of the handlers' own try blocks
Respond500(r, e) == [Respond(r, 500, JsonError(e)) EXCEPT !.failed = TRUE]

(* Inputs *)

Creds == {NoCred, Cred(sMail, sPw1), Cred(sMail, sPw2)}
CourseCreds == {NoCred, Cred(sMail, sPw1)}

UserBodies ==
    {UserBody(Str(sAnn), Str(sLee), Str(sMail), Str(sPw1)),
     UserBody(Str(sAnn), Str(sLee), Str(sMail), Str(sPw2)),
     UserBody(Undef, Str(sLee), Str(sMail), Str(sPw1)),
     UserBody(Str(sAnn), Null, Str(sMail), Str(sPw1)),
     UserBody(Str(sAnn), Str(sLee), Undef, Str(sPw1)),
     UserBody(Str(sAnn), Str(sLee), Str(sMail), Str(<<>>)),
     UserBody(Str(sAnn), Str(sLee), Str(sMail), Num(7))}

PostCourseBodies ==
    {CourseBody(Str(sT), Str(sD), Undef, Undef, Num(1)),
     CourseBody(Undef, Str(sD), Undef, Undef, Num(1)),
     CourseBody(Str(sT), Str(sD), Undef, Undef, Num(7))}

PutCourseBodies ==
    {CourseBody(Str(sT), Str(sD), Undef, Undef, Num(1)),
     CourseBody(Str(sU), Str(sD), Undef, Undef, Num(2)),
     CourseBody(Undef, Str(sD), Undef, Undef, Num(1))}

CourseIds == 1..MaxCourses

Requests ==
    {Request("GET /", NoCred, NoBody, 0), Request("GET /courses", NoCred, NoBody, 0)}
    \cup {Request("GET /users", c, NoBody, 0) : c \in Creds}
    \cup {Request("POST /users", NoCred, b, 0) : b \in UserBodies}
    \cup {Request("GET /courses/:id", NoCred, NoBody, i) : i \in CourseIds}
    \cup {Request("POST /courses", c, b, 0) : c \in CourseCreds, b \in PostCourseBodies}
    \cup {Request("PUT /courses/:id", c, b, i) :
             c \in CourseCreds, b \in PutCourseBodies, i \in CourseIds}
    \cup {Request("DELETE /courses/:id", c, NoBody, i) :
             c \in CourseCreds, i \in CourseIds}

----------------------------------------------------------------------------
Init ==
    /\ users = <<>>
    /\ courses = [i \in {} |-> Null]
    /\ written = [i \in {} |-> NoBody]
    /\ nextId = 1
    /\ reqs = [s \in Slots |-> Idle]
    /\ gone = {}
    /\ vIn = [kind |-> "none", body |-> NoBody]
    /\ vOut = <<>>

harness == <<vIn, vOut>>
tables == <<users, courses, written, nextId>>

Receive(s) ==
    /\ reqs[s].pc = "idle"
    /\ \E r \in Requests : reqs' = [reqs EXCEPT ![s] = r]
    /\ UNCHANGED <<tables, gone, harness>>

\* A response was sent, or the failure left the pipeline: the worker is free
\* for the next request
Retire(s) ==
    /\ reqs[s].pc \in {"done", "escaped"}
    /\ reqs' = [reqs EXCEPT ![s] = Idle]
    /\ UNCHANGED <<tables, gone, harness>>

----------------------------------------------------------------------------
(* Authentication middleware.  It is mounted on the routes as it is, not   *)
(* inside asyncHandler.                                                    *)

\* Variant: the last row with that email address
FindUserLast(us, name) ==
    LET m == {i \in 1..Len(us) : us[i].emailAddress = Str(name)}
    IN  IF m = {} THEN 0 ELSE CHOOSE i \in m : \A j \in m : j <= i

\* users.find(user => user.emailAddress === credentials.name): the index of
\* the first match, 0 for undefined
FindUser(us, name) ==
    LET m == {i \in 1..Len(us) : us[i].emailAddress = Str(name)}
    IN  IF m = {} THEN 0 ELSE CHOOSE i \in m : \A j \in m : i <= j

\* The middleware once User.findAll has returned the rows us
AuthDecide(r, us) ==
    LET m == FindUser(us, r.cred.name)
        q == [r EXCEPT !.seen = Len(us)]
    IN  IF m = 0
        THEN Respond(q, 403, JsonMsg("Forbidden: No user matches the credential provided."))
        ELSE IF CompareSync(r.cred.pass, us[m].password)
        THEN [q EXCEPT !.pc = "handler", !.currentUser = m]
        ELSE Respond(q, 403,
                 JsonMsg("Forbidden: The password did not match the user credential."))

\* A rejection of the middleware's promise is handled by nothing in this
\* file: the request gets no response (status 0) or, where the framework
\* forwards rejected middleware to its error handler, the framework's own
\* 500 page
EscapeStatus == {0, 500}
Escape(r, st) == [r EXCEPT !.pc = "escaped", !.failed = TRUE, !.status = st]

Authenticate(s) ==
    LET r == reqs[s]
    IN  /\ r.pc = "auth"
        /\ IF ~r.cred.present
           THEN reqs' = [reqs EXCEPT ![s] = Respond(r, 401,
                    JsonMsg("Unauthorized: No credentials provided in the WWW-authenticate header."))]
           ELSE \/ \E st \in EscapeStatus : reqs' = [reqs EXCEPT ![s] = Escape(r, st)]
                \/ reqs' = [reqs EXCEPT ![s] =
                       AuthDecide(r, [i \in 1..Len(users) |->
                                         Project(users[i], AuthAttributes)])]
        /\ UNCHANGED <<tables, gone, harness>>

----------------------------------------------------------------------------
(* Route handlers, each inside asyncHandler.  ok = FALSE is the            *)
(* persistence call rejecting.                                             *)

Welcome(s) ==
    LET r == reqs[s]
    IN  /\ r.pc = "handler" /\ r.ep = "GET /"
        /\ reqs' = [reqs EXCEPT ![s] = Respond(r, 200, JsonMsg("Welcome to the API"))]
        /\ UNCHANGED <<tables, gone, harness>>

\* Variant: findAll without the attribute list
ListUsersJsonAll(us) ==
    JsonArray([i \in 1..Len(us) |-> Project(us[i], ListAttributesAll)])

\* res.json(users) of GET /users
ListUsersJson(us) ==
    JsonArray([i \in 1..Len(us) |-> Project(us[i], ListAttributes)])

ListUsers(s) ==
    LET r == reqs[s]
    IN  /\ r.pc = "handler" /\ r.ep = "GET /users"
        /\ \E ok \in BOOLEAN :
              reqs' = [reqs EXCEPT ![s] =
                  IF ok THEN Respond(r, 200, ListUsersJson(users))
                  ELSE Respond500(r, DbError)]
        /\ UNCHANGED <<tables, gone, harness>>

UserRow(id, body, salt) ==
    [id |-> Num(id), firstName |-> body.firstName, lastName |-> body.lastName,
     emailAddress |-> body.emailAddress,
     password |-> HashSync(body.password.s, salt)]

\* POST /users.  The result of User.create is assigned to the undeclared
\* name user; the assignment is taken as it behaves in the route module,
\* whose text (lines 45 to 286) carries no strict-mode directive of its own.
CreateUser(s) ==
    LET r == reqs[s]
        errors == ValidationErrors(userValidationChain, r.body)
    IN  /\ r.pc = "handler" /\ r.ep = "POST /users"
        /\ IF errors # <<>>
           THEN /\ reqs' = [reqs EXCEPT ![s] = Respond(r, 400, JsonErrors(errors))]
                /\ UNCHANGED users
           ELSE IF r.body.password.t # "string"
           THEN \* bcryptjs.hashSync throws on a password that is no string
                /\ reqs' = [reqs EXCEPT ![s] = Respond500(r, HashError)]
                /\ UNCHANGED users
           ELSE \/ /\ reqs' = [reqs EXCEPT ![s] = Respond500(r, DbError)]
                   /\ UNCHANGED users
                \/ /\ Len(users) < MaxUsers
                   /\ \E salt \in Salts :
                         users' = Append(users, UserRow(Len(users) + 1, r.body, salt))
                   /\ reqs' = [reqs EXCEPT ![s] =
                          [Respond(r, 201, JsonMsg("Successfully created new user."))
                              EXCEPT !.wrote = TRUE]]
        /\ UNCHANGED <<courses, written, nextId, gone, harness>>

RECURSIVE RowsOf(_, _)
\* the rows of a table in id order, from id i on
RowsOf(cs, i) ==
    IF i >= nextId THEN <<>>
    ELSE (IF i \in DOMAIN cs THEN <<cs[i]>> ELSE <<>>) \o RowsOf(cs, i + 1)

ListCourses(s) ==
    LET r == reqs[s]
    IN  /\ r.pc = "handler" /\ r.ep = "GET /courses"
        /\ \E ok \in BOOLEAN :
              reqs' = [reqs EXCEPT ![s] =
                  IF ok THEN Respond(r, 200, JsonArray(RowsOf(courses, 1)))
                  ELSE Respond500(r, DbError)]
        /\ UNCHANGED <<tables, gone, harness>>

GetCourse(s) ==
    LET r == reqs[s]
    IN  /\ r.pc = "handler" /\ r.ep = "GET /courses/:id"
        /\ \E ok \in BOOLEAN :
              reqs' = [reqs EXCEPT ![s] =
                  IF ~ok THEN Respond500(r, DbError)
                  ELSE IF r.id \in DOMAIN courses
                  THEN Respond(r, 200, JsonObject(courses[r.id]))
                  ELSE Respond(r, 404, JsonMsg("There are no courses with that id."))]
        /\ UNCHANGED <<tables, gone, harness>>

\* POST /courses.  Course.create rejects a userId that names no row of
\* Users (foreign key), and the handler answers 500.
CreateCourse(s) ==
    LET r == reqs[s]
        errors == ValidationErrors(courseValidationChain, r.body)
    IN  /\ r.pc = "handler" /\ r.ep = "POST /courses"
        /\ IF errors # <<>>
           THEN /\ reqs' = [reqs EXCEPT ![s] = Respond(r, 400, JsonErrors(errors))]
                /\ UNCHANGED <<courses, written, nextId>>
           ELSE IF ~FkOk(r.body.userId, users)
           THEN /\ reqs' = [reqs EXCEPT ![s] = Respond500(r, FkError)]
                /\ UNCHANGED <<courses, written, nextId>>
           ELSE \/ /\ reqs' = [reqs EXCEPT ![s] = Respond500(r, DbError)]
                   /\ UNCHANGED <<courses, written, nextId>>
                \/ /\ nextId <= MaxCourses
                   /\ courses' = (nextId :> CourseRow(nextId, r.body)) @@ courses
                   /\ written' = (nextId :> r.body) @@ written
                   /\ nextId' = nextId + 1
                   /\ reqs' = [reqs EXCEPT ![s] =
                          [Respond(r, 201, JsonMsg("Successfully created course"))
                              EXCEPT !.wrote = TRUE]]
        /\ UNCHANGED <<users, gone, harness>>

\* Variant: PUT that looks at the validation result before the lookup
PutDecisionValidateFirst(r, exists) ==
    LET errors == ValidationErrors(courseValidationChain, r.body)
    IN  IF errors # <<>> THEN Respond(r, 400, JsonErrors(errors))
        ELSE IF exists THEN [r EXCEPT !.pc = "write"]
        ELSE Respond(r, 404, JsonMsg("There are no courses with that id."))

\* PUT once Course.findByPk has returned: a row (exists) or null
PutDecision(r, exists) ==
    LET errors == ValidationErrors(courseValidationChain, r.body)
    IN  IF exists
        THEN IF errors # <<>> THEN Respond(r, 400, JsonErrors(errors))
             ELSE [r EXCEPT !.pc = "write"]
        ELSE Respond(r, 404, JsonMsg("There are no courses with that id."))

PutLookup(s) ==
    LET r == reqs[s]
    IN  /\ r.pc = "handler" /\ r.ep = "PUT /courses/:id"
        /\ \E ok \in BOOLEAN :
              reqs' = [reqs EXCEPT ![s] =
                  IF ok THEN PutDecision(r, r.id \in DOMAIN courses)
                  ELSE Respond500(r, DbError)]
        /\ UNCHANGED <<tables, gone, harness>>

\* Variant: an update that writes the row back when it is gone
UpdateRowUpsert(cs, id, body) == (id :> CourseRow(id, body)) @@ cs

\* course.update(fields): UPDATE ... WHERE id = course.id; a row that is no
\* longer there is not written and is no error
UpdateRow(cs, id, body) ==
    IF id \in DOMAIN cs THEN [cs EXCEPT ![id] = CourseRow(id, body)] ELSE cs

PutUpdate(s) ==
    LET r == reqs[s]
        there == r.id \in DOMAIN courses
    IN  /\ r.pc = "write" /\ r.ep = "PUT /courses/:id"
        /\ \/ /\ reqs' = [reqs EXCEPT ![s] = Respond500(r, DbError)]
              /\ UNCHANGED <<courses, written>>
           \/ /\ there /\ ~FkOk(r.body.userId, users)
              /\ reqs' = [reqs EXCEPT ![s] = Respond500(r, FkError)]
              /\ UNCHANGED <<courses, written>>
           \/ /\ there => FkOk(r.body.userId, users)
              /\ courses' = UpdateRow(courses, r.id, r.body)
              /\ written' = IF there THEN [written EXCEPT ![r.id] = r.body] ELSE written
              /\ reqs' = [reqs EXCEPT ![s] =
                     [Respond(r, 204, JsonMsg("Thank you. The record was successfully updated."))
                         EXCEPT !.wrote = there, !.hit = there]]
        /\ UNCHANGED <<users, nextId, gone, harness>>

DeleteLookup(s) ==
    LET r == reqs[s]
    IN  /\ r.pc = "handler" /\ r.ep = "DELETE /courses/:id"
        /\ \E ok \in BOOLEAN :
              reqs' = [reqs EXCEPT ![s] =
                  IF ~ok THEN Respond500(r, DbError)
                  ELSE IF r.id \in DOMAIN courses THEN [r EXCEPT !.pc = "write"]
                  ELSE Respond(r, 404, JsonMsg("That course id does not exist."))]
        /\ UNCHANGED <<tables, gone, harness>>

\* course.destroy(): DELETE ... WHERE id = course.id; no row is no error
DestroyRow(cs, id) == [i \in DOMAIN cs \ {id} |-> cs[i]]

DeleteDestroy(s) ==
    LET r == reqs[s]
        there == r.id \in DOMAIN courses
    IN  /\ r.pc = "write" /\ r.ep = "DELETE /courses/:id"
        /\ \/ /\ reqs' = [reqs EXCEPT ![s] = Respond500(r, DbError)]
              /\ UNCHANGED <<courses, written, gone>>
           \/ /\ courses' = DestroyRow(courses, r.id)
              /\ written' = DestroyRow(written, r.id)
              /\ gone' = gone \cup {r.id}
              /\ reqs' = [reqs EXCEPT ![s] =
                     [Respond(r, 204, JsonMsg("The record was deleted."))
                         EXCEPT !.wrote = there, !.hit = there]]
        /\ UNCHANGED <<users, nextId, harness>>

Next ==
    \E s \in Slots :
        \/ Receive(s)
        \/ Authenticate(s)
        \/ Welcome(s)
        \/ ListUsers(s)
        \/ CreateUser(s)
        \/ ListCourses(s)
        \/ GetCourse(s)
        \/ CreateCourse(s)
        \/ PutLookup(s)
        \/ PutUpdate(s)
        \/ DeleteLookup(s)
        \/ DeleteDestroy(s)
        \/ Retire(s)

Spec == Init /\ [][Next]_vars

----------------------------------------------------------------------------
(* Validation harness: the chains of POST /users and of POST and PUT       *)
(* /courses applied to payloads drawn from the sample values below.        *)

FirstNames == {Undef, Null, Str(<<>>), Str(sAnn), Str(sA1), Num(5)}
LastNames == {Undef, Str(sLee), Str(sSp)}
Emails == {Undef, Str(sMail), Str(sNoMail), Num(0)}
Passwords == {Undef, Str(<<>>), Str(sPw1), Num(0), Num(7)}

Titles == {Undef, Str(<<>>), Str(sT), Num(5)}
Descriptions == {Null, Str(sD)}
Times == {Undef, Null, Str(sT), Num(5)}
Materials == {Undef, Str(<<>>), Num(0)}
UserIds ==
    {Undef, Null, Str(<<>>), Num(0), Num(1), Num(12), Num(-5),
     Str(<<"0">>), Str(<<"1">>), Str(<<"1","0">>), Str(<<"0","0","7">>),
     Str(<<"-","5">>), Str(<<"+","5">>), Str(<<"-","0","5">>),
     Str(<<"1","a">>), Str(<<"-">>)}

ValidateUser ==
    /\ vIn.kind = "none"
    /\ \E fn \in FirstNames, ln \in LastNames, em \in Emails, pw \in Passwords :
          LET b == UserBody(fn, ln, em, pw)
          IN  /\ vIn' = [kind |-> "user", body |-> b]
              /\ vOut' = ValidationErrors(userValidationChain, b)
    /\ UNCHANGED <<tables, reqs, gone>>

ValidateCourse ==
    /\ vIn.kind = "none"
    /\ \E ti \in Titles, de \in Descriptions, et \in Times, mn \in Materials,
          uid \in UserIds :
          LET b == CourseBody(ti, de, et, mn, uid)
          IN  /\ vIn' = [kind |-> "course", body |-> b]
              /\ vOut' = ValidationErrors(courseValidationChain, b)
    /\ UNCHANGED <<tables, reqs, gone>>

NextValidate == ValidateUser \/ ValidateCourse

SpecValidate == Init /\ [][NextValidate]_vars

----------------------------------------------------------------------------
(* Properties *)

Range(f) == {f[i] : i \in DOMAIN f}
FourXX == {400, 401, 403, 404}
GatedEndpoints ==
    {"GET /users", "POST /courses", "PUT /courses/:id", "DELETE /courses/:id"}
ErrorKeys == {"message", "name", "description"}

\* C1: every unexpected failure raised while a request is processed, the
\* authentication gate included, is answered with 500 and a body of
\* {message, name, description}; none leaves the pipeline and no request is
\* left without a response.
C1_EveryFailureAnswered500 ==
    \A s \in Slots :
        reqs[s].failed =>
            /\ reqs[s].pc = "done"
            /\ reqs[s].status = 500
            /\ reqs[s].json.keys = ErrorKeys

\* C2: the step that ends the lookup of an authenticated PUT /courses/:id
\* whose id names no course answers 404 whatever the payload (500 only when
\* the lookup itself failed, never 400) and changes no course; a PUT is
\* answered 400 only when its target exists.
C2_PutMissingIs404 ==
    [][\A s \in Slots :
          LET r == reqs[s]
              q == reqs'[s]
          IN  (r.ep = "PUT /courses/:id" /\ r.pc = "handler" /\ q.pc # "handler") =>
                 /\ r.id \notin DOMAIN courses =>
                       /\ q.pc = "done"
                       /\ q.status = 404 \/ (q.status = 500 /\ q.failed)
                       /\ courses' = courses
                       /\ ~q.wrote
                 /\ q.status = 400 => r.id \in DOMAIN courses]_vars

\* C2 witness: an authenticated PUT with an invalid payload for an id that
\* names no course was answered 404
C2_Witness ==
    \E s \in Slots :
        /\ reqs[s].ep = "PUT /courses/:id" /\ reqs[s].pc = "done"
        /\ reqs[s].status = 404
        /\ ValidationErrors(courseValidationChain, reqs[s].body) # <<>>
        /\ reqs[s].currentUser # 0

\* C3: a request without credentials to GET /users, POST /courses,
\* PUT /courses/:id or DELETE /courses/:id never gets past the gate, is
\* answered 401 whatever its payload and target, and writes nothing.
C3_NoCredentialsIs401 ==
    \A s \in Slots :
        (reqs[s].ep \in GatedEndpoints /\ ~reqs[s].cred.present) =>
            /\ reqs[s].pc \in {"auth", "done"}
            /\ reqs[s].pc = "done" => reqs[s].status = 401
            /\ ~reqs[s].wrote

\* C3 witness: a PUT without credentials, with an invalid payload and an id
\* that names no course, was answered 401
C3_Witness ==
    \E s \in Slots :
        /\ reqs[s].ep = "PUT /courses/:id" /\ ~reqs[s].cred.present
        /\ reqs[s].pc = "done" /\ reqs[s].status = 401
        /\ ValidationErrors(courseValidationChain, reqs[s].body) # <<>>
        /\ reqs[s].id \notin DOMAIN courses

\* The gate has read the Users table for this request
Looked(r) == r.ep \in AuthEps /\ r.cred.present /\ r.pc # "auth" /\ r.pc # "escaped"
Proceeded(r) == r.currentUser # 0 /\ r.status \notin {401, 403}

\* C4 as stated: for every Identity created with email e and secret s,
\* authenticating with (e, s) succeeds and with (e, s2), s2 # s, yields 403.
C4_RoundTripAnyIdentity ==
    \A s \in Slots :
        LET r == reqs[s]
        IN  Looked(r) =>
               \A i \in 1..r.seen :
                   users[i].emailAddress = Str(r.cred.name) =>
                       IF CompareSync(r.cred.pass, users[i].password)
                       THEN Proceeded(r)
                       ELSE r.pc = "done" /\ r.status = 403

\* C4 amended: for the first Identity created with email e, with secret s:
\* an authentication with (e, s) whose lookup returned proceeds with that
\* Identity attached, and one with (e, s2), s2 # s, is answered 403.
C4_RoundTripFirstIdentity ==
    \A s \in Slots :
        LET r == reqs[s]
        IN  Looked(r) =>
               \A i \in 1..r.seen :
                   (/\ users[i].emailAddress = Str(r.cred.name)
                    /\ \A j \in 1..(i - 1) : users[j].emailAddress # Str(r.cred.name)) =>
                       IF CompareSync(r.cred.pass, users[i].password)
                       THEN Proceeded(r) /\ r.currentUser = i
                       ELSE r.pc = "done" /\ r.status = 403 /\ r.currentUser = 0

\* C4 witness: with two Identities stored, one authentication has proceeded
\* and another was answered 403
C4_Witness ==
    /\ Len(users) = 2
    /\ \E s, t \in Slots :
          /\ Looked(reqs[s]) /\ reqs[s].seen = 2 /\ Proceeded(reqs[s])
          /\ Looked(reqs[t]) /\ reqs[t].seen = 2 /\ reqs[t].status = 403

RequiredUserFields == {"firstName", "lastName", "emailAddress", "password"}

\* the message of the presence check of each required field of an Identity
MissingMsg ==
    [firstName |-> "You must provide a first name for the user using the key firstName",
     lastName |-> "You must provide a last name for the user using the key lastName",
     emailAddress |-> "You must provide an email address for the user using the key emailAddress",
     password |-> "You must provide a password for the user using the key password"]

\* C7: the step that answers a request with 400, 401, 403 or 404 leaves the
\* Users and Courses tables as they were, and the request wrote nothing
\* before it; POST /users with a required field missing is answered 400
\* with the message of that field and persists no Identity.
C7_ClientErrorsWriteNothing ==
    [][\A s \in Slots :
          LET r == reqs[s]
              q == reqs'[s]
          IN  /\ (r.pc # "done" /\ q.pc = "done" /\ q.status \in FourXX) =>
                    users' = users /\ courses' = courses /\ ~q.wrote
              /\ (r.ep = "POST /users" /\ r.pc = "handler" /\ q.pc # "handler") =>
                    \A f \in RequiredUserFields :
                        ~Truthy(r.body[f]) =>
                            /\ q.pc = "done" /\ q.status = 400
                            /\ MissingMsg[f] \in Range(q.json.errors)
                            /\ users' = users]_vars

\* C7 witness: POST /users without firstName was answered 400 while an
\* Identity is stored
C7_Witness ==
    \E s \in Slots :
        /\ reqs[s].ep = "POST /users" /\ reqs[s].pc = "done"
        /\ reqs[s].status = 400
        /\ ~Truthy(reqs[s].body.firstName)
        /\ Len(users) = 1

\* the password a stored hash was made from
SecretOf(h) == Str(SubSeq(h.s, 4, Len(h.s)))

Leaks(j) ==
    \E k \in 1..Len(j.rows) :
        \/ "password" \in DOMAIN j.rows[k]
        \/ \E a \in DOMAIN j.rows[k], i \in 1..Len(users) :
              \/ j.rows[k][a] = users[i].password
              \/ j.rows[k][a] = SecretOf(users[i].password)

\* C8: no response, whatever its status, carries the password attribute of
\* an Identity, its stored hash or its secret; the rows of GET /users have
\* exactly the attributes id, firstName, lastName, emailAddress.
C8_NoSecretInResponses ==
    \A s \in Slots :
        LET r == reqs[s]
        IN  /\ ~Leaks(r.json)
            /\ (r.ep = "GET /users" /\ r.pc = "done" /\ r.status = 200) =>
                  /\ Len(r.json.rows) <= Len(users)
                  /\ \A k \in 1..Len(r.json.rows) :
                        /\ DOMAIN r.json.rows[k] =
                              {"id", "firstName", "lastName", "emailAddress"}
                        /\ \A a \in DOMAIN r.json.rows[k] : r.json.rows[k][a] = users[k][a]

\* C8 witness: GET /users has answered 200 with two Identities
C8_Witness ==
    \E s \in Slots :
        /\ reqs[s].ep = "GET /users" /\ reqs[s].pc = "done" /\ reqs[s].status = 200
        /\ Len(reqs[s].json.rows) = 2

\* C9: once a DELETE /courses/:id has answered 204 for an id, the lookup of
\* every later GET /courses/:id for it answers 404 (500 only when the lookup
\* itself failed, never 200), whatever happened to other courses; and the
\* lookup of a course that exists answers 200 with the fields last
\* persisted for it by its creation or by an update.
C9_DeletedStaysGone ==
    [][\A s \in Slots :
          LET r == reqs[s]
              q == reqs'[s]
          IN  (r.ep = "GET /courses/:id" /\ r.pc = "handler" /\ q.pc = "done") =>
                 /\ r.id \in gone =>
                       q.status = 404 \/ (q.status = 500 /\ q.failed)
                 /\ r.id \in DOMAIN courses =>
                       \/ q.status = 500 /\ q.failed
                       \/ /\ q.status = 200
                          /\ Len(q.json.rows) = 1
                          /\ q.json.rows[1].id = Num(r.id)
                          /\ \A f \in CourseFields :
                                q.json.rows[1][f] = Store(written[r.id][f])]_vars

\* C9 witness: GET /courses/:id for a deleted id was answered 404 while
\* another course exists
C9_Witness ==
    \E s \in Slots :
        /\ reqs[s].ep = "GET /courses/:id" /\ reqs[s].pc = "done"
        /\ reqs[s].status = 404
        /\ reqs[s].id \in gone
        /\ DOMAIN courses # {}

\* C10: a PUT /courses/:id answered 204 has written its fields to a course
\* that existed at the moment of the write, and a DELETE /courses/:id
\* answered 204 has itself removed an existing course, under every
\* interleaving.
C10_WritesHitExistingCourse ==
    \A s \in Slots :
        (/\ reqs[s].ep \in {"PUT /courses/:id", "DELETE /courses/:id"}
         /\ reqs[s].pc = "done"
         /\ reqs[s].status = 204) => reqs[s].hit

(* Validation harness *)

vChains ==
    IF vIn.kind = "user" THEN userValidationChain ELSE courseValidationChain

Active(c, body) == ~(c.ifExists /\ body[c.field].t = "undefined")

Fails(c, j, body) == Active(c, body) /\ ~Passes(c.validators[j].kind, body[c.field])

FailingFields(chains, body) ==
    {i \in 1..Len(chains) :
        \E j \in 1..Len(chains[i].validators) : Fails(chains[i], j, body)}

FailingValidators(chains, body) ==
    {p \in (1..Len(chains)) \X (1..2) :
        p[2] <= Len(chains[p[1]].validators) /\ Fails(chains[p[1]], p[2], body)}

\* position of a message in the declaration: chain, then validator
Position(chains, msg) ==
    CHOOSE p \in (1..Len(chains)) \X (1..2) :
        p[2] <= Len(chains[p[1]].validators) /\ chains[p[1]].validators[p[2]].msg = msg

Before(p, q) == p[1] < q[1] \/ (p[1] = q[1] /\ p[2] < q[2])

InDeclarationOrder(chains, msgs) ==
    \A a, b \in 1..Len(msgs) :
        a < b => Before(Position(chains, msgs[a]), Position(chains, msgs[b]))

\* C5 as stated: the messages are in declaration order and there is exactly
\* one per field whose rule fails.
C5_OneMessagePerField ==
    vIn.kind # "none" =>
        /\ InDeclarationOrder(vChains, vOut)
        /\ Len(vOut) = Cardinality(FailingFields(vChains, vIn.body))

\* C5 amended: every validator of every field rule is evaluated, in
\* declaration order and without short-circuit; each failing validator (the
\* presence check, the content check) adds exactly one message, so a field
\* adds one message per failing validator (two when it is missing and has a
\* content check) and at least one when its rule fails.
C5_OneMessagePerValidator ==
    vIn.kind # "none" =>
        /\ InDeclarationOrder(vChains, vOut)
        /\ Len(vOut) = Cardinality(FailingValidators(vChains, vIn.body))
        /\ \A p \in FailingValidators(vChains, vIn.body) :
              vChains[p[1]].validators[p[2]].msg \in Range(vOut)
        /\ Len(vOut) >= Cardinality(FailingFields(vChains, vIn.body))

\* C5 witness: an Identity payload in which all four fields fail, with
\* seven messages
C5_Witness ==
    /\ vIn.kind = "user"
    /\ Len(vOut) = 7
    /\ Cardinality(FailingFields(vChains, vIn.body)) = 4

UserIdMsgs ==
    {"You must provide the id of the user this course belongs to",
     "You must provide a valid userId"}

UserIdAccepted == Range(vOut) \cap UserIdMsgs = {}

Magnitudes == 0..MaxInt

\* C6 as stated: a userId is accepted exactly when it is a non-negative
\* integer whose text has no leading zero.
C6_NonNegativeOnly ==
    vIn.kind = "course" =>
        LET v == vIn.body.userId
        IN  UserIdAccepted <=>
               \/ v.t = "number" /\ v.n >= 0
               \/ v.t = "string" /\ \E k \in Magnitudes : v.s = NatToStr(k)

\* C6 amended: a userId is accepted exactly when it is truthy and its text
\* is a decimal integer with an optional sign (+ or -) and no leading zero:
\* negative integers are accepted, the number 0 is rejected as missing, the
\* string "0" is accepted, and every value with a leading zero is rejected.
C6_SignedNoLeadingZero ==
    vIn.kind = "course" =>
        LET v == vIn.body.userId
        IN  UserIdAccepted <=>
               \/ v.t = "number" /\ v.n # 0
               \/ /\ v.t = "string"
                  /\ \E k \in Magnitudes :
                        v.s \in {NatToStr(k), <<"-">> \o NatToStr(k), <<"+">> \o NatToStr(k)}

\* C6 witness: the userId -5 was accepted
C6_Witness ==
    /\ vIn.kind = "course"
    /\ vIn.body.userId = Num(-5)
    /\ UserIdAccepted

====
